---- MODULE Spec2Model ----
(***************************************************************************)
(* Model of duplo (src/main.py): duplicate detection with a size/mtime     *)
(* validated hash cache, identical-directory matching, selection of the    *)
(* copies to delete, and execution of the deletion plan.                   *)
(***************************************************************************)
EXTENDS Integers, Sequences, FiniteSets, TLC

(***************************************************************************)
(* Bounds of the model.                                                    *)
(***************************************************************************)
MaxChanges == 2     \* changes other processes make to the files
MaxRuns == 2        \* runs of the program sharing one cache file

\* paths are sequences of components: <<"x", "1">> is /x/1
Paths == << <<"x", "1">>, <<"x", "2">>, <<"y", "1">>, <<"y", "2">> >>
PathSet == {Paths[i] : i \in 1..Len(Paths)}
\* file contents: byte strings of length 1, 1 and 2
Contents == {<<1>>, <<2>>, <<1, 1>>}
None == "None"
Mtimes == {0, 1}
PathIndex(p) == CHOOSE i \in 1..Len(Paths) : Paths[i] = p
\* the trees the program is started on: one content per path
InitLayouts == {<< <<1>>, <<1>>, <<1, 1>>, <<1, 1>> >>,
                << <<1>>, <<1>>, <<2>>, <<1, 1>> >>,
                << <<1>>, <<2>>, <<1>>, <<1, 1>> >>}

(***************************************************************************)
(* Detection state.                                                        *)
(***************************************************************************)
VARIABLES
    fs,            \* the file system: path -> [content, mtime, st]
    changes,       \* number of outside changes so far
    pc,            \* "idle" | "scanned" | "hashing"
    runs,          \* completed runs
    file_list,     \* all_files of scan_directory: seq of [path, size, mtime]
    cache,         \* HashCache.cache of the running process
    disk,          \* the pickled cache file
    cands,         \* candidate_groups, flattened in iteration order
    idx,           \* position of the loop over the candidates
    hashes_map,    \* seq of [hash, paths] in insertion order
    from_cache,    \* counter of cache hits
    duplicates,    \* result of the last completed run
    snap,          \* history: content of every file at the last scan
    resolved,      \* history: fingerprint each file resolved to in this run
    hashCalls,     \* history: paths get_file_hash was called on in this run
    failed,        \* history: paths whose get_file_hash returned None
    startCache,    \* history: the cache as loaded by this run
    quiet,         \* history: no outside change since this run's scan
    prev           \* history: the run before this one

detVars == <<fs, changes, pc, runs, file_list, cache, disk, cands, idx,
             hashes_map, from_cache, duplicates, snap, resolved, hashCalls,
             failed, startCache, quiet, prev>>

(***************************************************************************)
(* State of find_identical_directories.                                    *)
(***************************************************************************)
VARIABLES
    dpc,             \* "off" | "ready" | "done"
    dup_in,          \* the duplicates argument: seq of [hash, paths]
    identical_dirs   \* the returned list of directory groups

dirVars == <<dpc, dup_in, identical_dirs>>

(***************************************************************************)
(* State of interactive_selection and auto_select_first_copy.              *)
(***************************************************************************)
VARIABLES
    mode,               \* main's --auto-first ("auto") or --interactive
    spc,                \* "off" | "auto" | "files" | "dirs" | "returned"
    sel_dups,           \* the duplicates argument: seq of groups of paths
    sel_dirs,           \* the identical_dirs argument: seq of groups
    auto_select_first,  \* the flag of interactive_selection
    gi,                 \* position of the loop over the groups
    files_to_delete,
    dirs_to_delete,
    fileAns,            \* history: what was entered for each file group
    dirAns              \* history: what was entered for each directory group

selVars == <<mode, spc, sel_dups, sel_dirs, auto_select_first, gi, files_to_delete,
             dirs_to_delete, fileAns, dirAns>>

(***************************************************************************)
(* State of execute_deletion.                                              *)
(***************************************************************************)
VARIABLES
    epc,             \* "off" | "files" | "dirs" | "finished"
    efs,             \* the tree: [files: path -> state, dirs: path -> exists]
    plan_files,      \* the files_to_delete argument
    plan_dirs,       \* the dirs_to_delete argument
    dry_run,
    ei,              \* position of the running loop
    deleted_files,
    deleted_dirs,
    freed_space,
    efs0,            \* history: the tree when execute_deletion was called
    elog             \* history: per item, whether it existed before and after

exeVars == <<epc, efs, plan_files, plan_dirs, dry_run, ei, deleted_files,
             deleted_dirs, freed_space, efs0, elog>>

(***************************************************************************)
(* State of the cache file when a run may be killed.                       *)
(***************************************************************************)
VARIABLES
    torn,          \* the cache file is empty or partly written: it cannot be unpickled
    kwrites,       \* history: times this run opened the cache file for writing
    crashed        \* history: the last run ended in a crash

crashVars == <<torn, kwrites, crashed>>

vars == <<detVars, dirVars, selVars, exeVars, crashVars>>

NoEntry == [size |-> -1, mtime |-> -1, hash |-> None]
EmptyCache == [p \in PathSet |-> NoEntry]
NoPrev == [valid |-> FALSE, list |-> <<>>, dups |-> <<>>, failed |-> {},
           quiet |-> FALSE]

\* get_file_hash's digest of a content: MD5 is taken as collision free
Md5(c) == <<"md5", c>>

\* get_file_hash: the digest of the bytes, None when open or read fails
get_file_hash(p) == IF fs[p].st = "ok" THEN Md5(fs[p].content) ELSE None

\* os.path.getsize
getsize(c) == Len(c)

RECURSIVE ScanFrom(_)
\* a file whose getsize or getmtime raises OSError is left out
ScanFrom(i) ==
    IF i > Len(Paths) THEN <<>>
    ELSE (IF fs[Paths[i]].st = "gone" THEN <<>>
          ELSE <<[path |-> Paths[i], size |-> getsize(fs[Paths[i]].content),
                  mtime |-> fs[Paths[i]].mtime]>>) \o ScanFrom(i + 1)

\* scan_directory: one (full_path, file_size, mtime) per file, in walk order
scan_directory == ScanFrom(1)

\* HashCache.get that compares the size alone
MutCacheGet(c, p, size, mtime) ==
    IF c[p] # NoEntry /\ c[p].size = size THEN c[p].hash ELSE None

\* HashCache.get
CacheGet(c, p, size, mtime) ==
    IF c[p] # NoEntry /\ c[p].size = size /\ c[p].mtime = mtime
    THEN c[p].hash ELSE None

\* HashCache.set that stores no modification time
MutCacheSet(c, p, size, mtime, h) ==
    [c EXCEPT ![p] = [size |-> size, mtime |-> -1, hash |-> h]]

\* HashCache.set
CacheSet(c, p, size, mtime, h) ==
    [c EXCEPT ![p] = [size |-> size, mtime |-> mtime, hash |-> h]]

\* size_groups[file_size]: the files of one size, in list order
SizeGroup(fl, s) == SelectSeq(fl, LAMBDA r : r.size = s)

\* a pruning that also drops the size groups of 2 files
MutIsCandidateGroup(g) == Len(g) > 2

\* a size group is a candidate group when it has 2 or more files
IsCandidateGroup(g) == Len(g) > 1

RECURSIVE SizesFrom(_, _, _)
SizesFrom(fl, i, seen) ==
    IF i > Len(fl) THEN <<>>
    ELSE IF fl[i].size \in seen THEN SizesFrom(fl, i + 1, seen)
    ELSE <<fl[i].size>> \o SizesFrom(fl, i + 1, seen \cup {fl[i].size})

RECURSIVE ConcatGroups(_, _, _)
ConcatGroups(fl, sizes, i) ==
    IF i > Len(sizes) THEN <<>>
    ELSE (IF IsCandidateGroup(SizeGroup(fl, sizes[i]))
          THEN SizeGroup(fl, sizes[i]) ELSE <<>>)
         \o ConcatGroups(fl, sizes, i + 1)

\* candidate_groups in iteration order: sizes by first appearance
Candidates(fl) == ConcatGroups(fl, SizesFrom(fl, 1, {}), 1)

\* hashes_map[h].append(p)
AddToMap(m, h, p) ==
    IF \E i \in 1..Len(m) : m[i].hash = h
    THEN [i \in 1..Len(m) |->
            IF m[i].hash = h
            THEN [hash |-> h, paths |-> Append(m[i].paths, p)] ELSE m[i]]
    ELSE Append(m, [hash |-> h, paths |-> <<p>>])

\* a hash is a duplicate group when 2 or more paths have it
IsDuplicateGroup(g) == Len(g.paths) > 1

\* duplicates = {h: paths for h, paths in hashes_map.items() if len(paths) > 1}
FilterDuplicates(m) == SelectSeq(m, IsDuplicateGroup)

\* the other parts of the program are not running
DirOff == dpc = "off" /\ dup_in = <<>> /\ identical_dirs = <<>>
SelOff ==
    /\ mode = "off" /\ spc = "off" /\ sel_dups = <<>> /\ sel_dirs = <<>>
    /\ auto_select_first = FALSE /\ gi = 1
    /\ files_to_delete = <<>> /\ dirs_to_delete = <<>>
    /\ fileAns = <<>> /\ dirAns = <<>>
\* the files and directories execute_deletion works on, and their sizes
ExeFileSeq == << <<"a", "1">>, <<"a", "s", "1">>, <<"b", "1">> >>
ExeFiles == {ExeFileSeq[i] : i \in 1..Len(ExeFileSeq)}
ExeDirs == {<<"a">>, <<"a", "s">>, <<"b">>}
FileSize(p) == CASE p = <<"a", "1">> -> 1
                 [] p = <<"a", "s", "1">> -> 2
                 [] p = <<"b", "1">> -> 4
NoTree == [files |-> [p \in ExeFiles |-> "gone"], dirs |-> [d \in ExeDirs |-> FALSE]]
ExeOff ==
    /\ epc = "off" /\ efs = NoTree /\ efs0 = NoTree
    /\ plan_files = <<>> /\ plan_dirs = <<>> /\ dry_run = FALSE /\ ei = 1
    /\ deleted_files = 0 /\ deleted_dirs = 0 /\ freed_space = 0
    /\ elog = <<>>
DetOff ==
    /\ fs = [p \in PathSet |-> [content |-> <<>>, mtime |-> 0, st |-> "ok"]]
    /\ changes = 0 /\ pc = "off" /\ runs = 0 /\ file_list = <<>>
    /\ cache = EmptyCache /\ disk = EmptyCache /\ cands = <<>> /\ idx = 1
    /\ hashes_map = <<>> /\ from_cache = 0 /\ duplicates = <<>>
    /\ snap = [p \in PathSet |-> <<>>]
    /\ resolved = [p \in PathSet |-> None]
    /\ hashCalls = {} /\ failed = {} /\ startCache = EmptyCache
    /\ quiet = FALSE /\ prev = NoPrev

CrashOff == torn = FALSE /\ kwrites = 0 /\ crashed = FALSE

DetInit ==
    /\ \E l \in InitLayouts :
          fs = [p \in PathSet |->
                  [content |-> l[PathIndex(p)], mtime |-> 0, st |-> "ok"]]
    /\ changes = 0
    /\ pc = "idle"
    /\ runs = 0
    /\ file_list = <<>>
    /\ cache = EmptyCache
    /\ disk = EmptyCache
    /\ cands = <<>>
    /\ idx = 1
    /\ hashes_map = <<>>
    /\ from_cache = 0
    /\ duplicates = <<>>
    /\ snap = [p \in PathSet |-> <<>>]
    /\ resolved = [p \in PathSet |-> None]
    /\ hashCalls = {}
    /\ failed = {}
    /\ startCache = EmptyCache
    /\ quiet = FALSE
    /\ prev = NoPrev
    /\ DirOff
    /\ SelOff
    /\ ExeOff
    /\ CrashOff

\* main, step 1: scan_directory
Scan ==
    /\ pc = "idle"
    /\ runs < MaxRuns
    /\ pc' = "scanned"
    /\ file_list' = scan_directory
    /\ snap' = [p \in PathSet |-> fs[p].content]
    /\ quiet' = TRUE
    /\ prev' = [valid |-> runs > 0, list |-> file_list, dups |-> duplicates,
                failed |-> failed, quiet |-> quiet]
    /\ UNCHANGED <<fs, changes, runs, cache, disk, cands, idx, hashes_map,
                   from_cache, duplicates, resolved, hashCalls, failed,
                   startCache>>
    /\ UNCHANGED <<dirVars, selVars, exeVars, crashVars>>

\* find_duplicates_parallel up to the loop: load the cache, group by size
LoadAndGroup ==
    /\ pc = "scanned"
    /\ pc' = "hashing"
    /\ cache' = disk
    /\ startCache' = disk
    /\ cands' = Candidates(file_list)
    /\ idx' = 1
    /\ hashes_map' = <<>>
    /\ from_cache' = 0
    /\ resolved' = [p \in PathSet |-> None]
    /\ hashCalls' = {}
    /\ failed' = {}
    /\ UNCHANGED <<fs, changes, runs, file_list, disk, duplicates, snap,
                   quiet, prev>>
    /\ UNCHANGED <<dirVars, selVars, exeVars, crashVars>>

\* one iteration of the loop over the candidate files
ProcessFile ==
    /\ pc = "hashing"
    /\ idx <= Len(cands)
    /\ LET f == cands[idx]
           cached == CacheGet(cache, f.path, f.size, f.mtime)
           fresh == get_file_hash(f.path)
       IN IF cached # None
          THEN /\ from_cache' = from_cache + 1
               /\ hashes_map' = AddToMap(hashes_map, cached, f.path)
               /\ resolved' = [resolved EXCEPT ![f.path] = cached]
               /\ UNCHANGED <<cache, hashCalls, failed>>
          ELSE /\ hashCalls' = hashCalls \cup {f.path}
               /\ IF fresh # None
                  THEN /\ cache' = CacheSet(cache, f.path, f.size, f.mtime, fresh)
                       /\ hashes_map' = AddToMap(hashes_map, fresh, f.path)
                       /\ resolved' = [resolved EXCEPT ![f.path] = fresh]
                       /\ UNCHANGED failed
                  ELSE /\ failed' = failed \cup {f.path}
                       /\ UNCHANGED <<cache, hashes_map, resolved>>
               /\ UNCHANGED from_cache
    /\ idx' = idx + 1
    /\ UNCHANGED <<fs, changes, pc, runs, file_list, disk, cands, duplicates,
                   snap, startCache, quiet, prev>>
    /\ UNCHANGED <<dirVars, selVars, exeVars, crashVars>>

\* after the loop: save_cache, keep the hashes with 2 or more paths
SaveAndFilter ==
    /\ pc = "hashing"
    /\ idx > Len(cands)
    /\ disk' = cache
    /\ duplicates' = FilterDuplicates(hashes_map)
    /\ pc' = "idle"
    /\ runs' = runs + 1
    /\ UNCHANGED <<fs, changes, file_list, cache, cands, idx, hashes_map,
                   from_cache, snap, resolved, hashCalls, failed, startCache,
                   quiet, prev>>
    /\ UNCHANGED <<dirVars, selVars, exeVars, crashVars>>

\* another process rewrites a file, with or without a new modification time
WriteFile ==
    /\ changes < MaxChanges
    /\ runs < MaxRuns
    /\ \E p \in PathSet, c \in Contents, t \in Mtimes :
          /\ fs[p].st # "gone"
          /\ <<c, t>> # <<fs[p].content, fs[p].mtime>>
          /\ fs' = [fs EXCEPT ![p].content = c, ![p].mtime = t]
    /\ changes' = changes + 1
    /\ quiet' = FALSE
    /\ prev' = [prev EXCEPT !.quiet = FALSE]
    /\ UNCHANGED <<pc, runs, file_list, cache, disk, cands, idx, hashes_map,
                   from_cache, duplicates, snap, resolved, hashCalls, failed,
                   startCache>>
    /\ UNCHANGED <<dirVars, selVars, exeVars, crashVars>>

\* a file becomes unreadable ("denied"), is removed ("gone") or is back as
\* it was ("ok")
ChangeAccess ==
    /\ changes < MaxChanges
    /\ runs < MaxRuns
    /\ \E p \in PathSet, st \in {"ok", "denied", "gone"} :
          /\ st # fs[p].st
          /\ fs' = [fs EXCEPT ![p].st = st]
    /\ changes' = changes + 1
    /\ quiet' = FALSE
    /\ prev' = [prev EXCEPT !.quiet = FALSE]
    /\ UNCHANGED <<pc, runs, file_list, cache, disk, cands, idx, hashes_map,
                   from_cache, duplicates, snap, resolved, hashCalls, failed,
                   startCache>>
    /\ UNCHANGED <<dirVars, selVars, exeVars, crashVars>>

(***************************************************************************)
(* Properties of duplicate detection.                                      *)
(***************************************************************************)
\* a run has returned and no new one has started: file_list, cands,
\* resolved, hashCalls and failed are those of the run that returned
Done == pc = "idle" /\ runs > 0

ListedPaths == {file_list[i].path : i \in 1..Len(file_list)}
Rec(p) == file_list[CHOOSE i \in 1..Len(file_list) : file_list[i].path = p]
CandPaths == {cands[i].path : i \in 1..Len(cands)}
Places(d, p) ==
    {<<g, k>> \in (1..Len(d)) \X (1..Len(Paths)) :
        k <= Len(d[g].paths) /\ d[g].paths[k] = p}
Together(d, p, q) ==
    \E g \in 1..Len(d) : {p, q} \subseteq
        {d[g].paths[k] : k \in 1..Len(d[g].paths)}

\* C1: the result is exactly the fingerprint classes with 2 or more members:
\* two listed files share a group iff they resolved to the same fingerprint,
\* a group's key is its members' fingerprint, every group has 2 or more
\* members, no file is placed twice, and two files whose content was equal
\* when scanned are both candidates and both processed (never pruned).
C1_ExactFingerprintClasses ==
    Done =>
      /\ \A p, q \in ListedPaths :
            p # q => (Together(duplicates, p, q) <=>
                        (resolved[p] # None /\ resolved[p] = resolved[q]))
      /\ \A g \in 1..Len(duplicates) :
            /\ Len(duplicates[g].paths) >= 2
            /\ \A k \in 1..Len(duplicates[g].paths) :
                  resolved[duplicates[g].paths[k]] = duplicates[g].hash
      /\ \A p \in PathSet : Cardinality(Places(duplicates, p)) <= 1
      /\ \A p, q \in ListedPaths :
            (p # q /\ snap[p] = snap[q]) =>
               /\ {p, q} \subseteq CandPaths
               /\ \A r \in {p, q} : resolved[r] # None \/ r \in failed
      /\ \A p, q \in ListedPaths :
            (p # q /\ snap[p] = snap[q] /\ quiet /\ startCache = EmptyCache
               /\ fs[p].st = "ok" /\ fs[q].st = "ok")
               => Together(duplicates, p, q)

\* the scenario of the specification: two files of one content, a third of
\* the same size and another content; the two are grouped, the third is not
C1_Witness ==
    /\ Done
    /\ \E p, q, r \in ListedPaths :
          /\ p # q /\ snap[p] = snap[q]
          /\ snap[r] # snap[p] /\ Len(snap[r]) = Len(snap[p])
          /\ Together(duplicates, p, q)
          /\ Places(duplicates, r) = {}

\* C2: two files whose recorded sizes differ are never in the same group.
C2_DifferentSizesNeverGrouped ==
    Done =>
      \A p, q \in ListedPaths :
         Rec(p).size # Rec(q).size => ~Together(duplicates, p, q)

\* the entry the run loaded for p is of another size or modification time
\* than p's record
Stale(p) ==
    /\ startCache[p] # NoEntry
    /\ startCache[p].size # Rec(p).size \/ startCache[p].mtime # Rec(p).mtime

\* the fingerprint of p came from the cache
UsedCache(p) == resolved[p] # None /\ p \notin hashCalls

\* C3 as stated: a cached fingerprint is used only when size and mtime
\* match, and every listed file with a stale entry is digested afresh and
\* its entry overwritten with the new size, mtime and fingerprint.
C3_StaleEntryAlwaysRefreshed ==
    Done =>
      \A p \in ListedPaths :
         /\ UsedCache(p) =>
               /\ startCache[p].size = Rec(p).size
               /\ startCache[p].mtime = Rec(p).mtime
               /\ resolved[p] = startCache[p].hash
         /\ Stale(p) =>
               /\ p \in hashCalls
               /\ resolved[p] # None
               /\ disk[p] = [size |-> Rec(p).size, mtime |-> Rec(p).mtime,
                             hash |-> resolved[p]]

\* C3 amended: the same for a candidate file; the entry is overwritten when
\* the digest succeeds, and is left as stored when the digest fails or the
\* file is not a candidate.
C3_StaleEntryRefreshedOnSuccess ==
    Done =>
      \A p \in ListedPaths :
         /\ UsedCache(p) =>
               /\ startCache[p].size = Rec(p).size
               /\ startCache[p].mtime = Rec(p).mtime
               /\ resolved[p] = startCache[p].hash
         /\ (Stale(p) /\ p \in CandPaths) =>
               /\ p \in hashCalls
               /\ IF p \in failed
                  THEN disk[p] = startCache[p]
                  ELSE /\ resolved[p] # None
                       /\ quiet => resolved[p] = Md5(snap[p])
                       /\ disk[p] = [size |-> Rec(p).size,
                                     mtime |-> Rec(p).mtime,
                                     hash |-> resolved[p]]
         /\ (Stale(p) /\ p \notin CandPaths) =>
               p \notin hashCalls /\ disk[p] = startCache[p]

\* a candidate whose entry went stale was digested and its entry replaced,
\* and another candidate was served from the cache
C3_Witness ==
    /\ Done
    /\ \E p, q \in CandPaths :
          /\ Stale(p) /\ p \notin failed /\ disk[p] # startCache[p]
          /\ UsedCache(q)

\* the run before this one and this one saw the same files: nothing changed
\* from the first scan to the end of the second run
TwoQuietRuns ==
    Done /\ prev.valid /\ prev.quiet /\ quiet /\ file_list = prev.list

\* C4 as stated: the second of two runs over unchanged files returns the
\* same groups and calls get_file_hash for no file.
C4_SecondRunHashesNothing ==
    TwoQuietRuns => duplicates = prev.dups /\ hashCalls = {}

\* C4 amended: the second run returns the same groups and calls
\* get_file_hash exactly for the candidates whose digest failed in the first
\* run; every other candidate is resolved from the cache.
C4_SecondRunHashesOnlyFailed ==
    TwoQuietRuns =>
      /\ duplicates = prev.dups
      /\ hashCalls = prev.failed
      /\ failed = prev.failed
      /\ \A p \in CandPaths \ prev.failed : UsedCache(p)
      /\ from_cache = Cardinality(CandPaths \ prev.failed)

\* a second quiet run with a duplicate group and a file that failed twice
C4_Witness ==
    /\ TwoQuietRuns
    /\ duplicates # <<>>
    /\ prev.failed # {}
    /\ from_cache >= 2

RECURSIVE FoldResolved(_, _, _)
FoldResolved(cs, i, m) ==
    IF i > Len(cs) THEN m
    ELSE FoldResolved(cs, i + 1,
            IF resolved[cs[i].path] = None THEN m
            ELSE AddToMap(m, resolved[cs[i].path], cs[i].path))

\* the result for the input without file f, every other file resolving as
\* it did in this run
ResultWithout(f) ==
    FilterDuplicates(FoldResolved(
        Candidates(SelectSeq(file_list, LAMBDA r : r.path # f)), 1, <<>>))

\* C5: a file whose digest failed is in no group, gets no cache entry in
\* this run, and the result is the one for the input without that file.
C5_FailedFileAsIfAbsent ==
    Done =>
      \A f \in failed :
         /\ Places(duplicates, f) = {}
         /\ disk[f] = startCache[f]
         /\ idx > Len(cands)
         /\ duplicates = ResultWithout(f)

(***************************************************************************)
(* find_identical_directories.                                             *)
(***************************************************************************)
NHashes == 2        \* fingerprints 1..NHashes of the duplicate groups

\* the files of the tree: /a and /b with 3 files, /a/s and /c with 1
DirFileSeq == << <<"a", "1">>, <<"a", "2">>, <<"a", "3">>,
                 <<"b", "1">>, <<"b", "2">>, <<"b", "3">>,
                 <<"a", "s", "1">>, <<"c", "1">> >>
DirFiles == {DirFileSeq[i] : i \in 1..Len(DirFileSeq)}

\* os.path.dirname: the path without its last component
Dirname(p) == SubSeq(p, 1, Len(p) - 1)

AllDirs == {Dirname(p) : p \in DirFiles}

\* dict[k].append(v) on a dict kept in insertion order
AppendTo(m, k, v) ==
    IF \E i \in 1..Len(m) : m[i].key = k
    THEN [i \in 1..Len(m) |->
            IF m[i].key = k
            THEN [key |-> k, vals |-> Append(m[i].vals, v)] ELSE m[i]]
    ELSE Append(m, [key |-> k, vals |-> <<v>>])

RECURSIVE InsertSorted(_, _)
InsertSorted(sq, x) ==
    IF sq = <<>> THEN <<x>>
    ELSE IF x <= Head(sq) THEN <<x>> \o sq
    ELSE <<Head(sq)>> \o InsertSorted(Tail(sq), x)

RECURSIVE Sorted(_)
\* sorted(hashes)
Sorted(sq) ==
    IF sq = <<>> THEN <<>> ELSE InsertSorted(Sorted(Tail(sq)), Head(sq))

RECURSIVE Distinct(_)
Distinct(sq) ==
    IF sq = <<>> THEN <<>>
    ELSE IF \E i \in 2..Len(sq) : sq[i] = Head(sq) THEN Distinct(Tail(sq))
    ELSE <<Head(sq)>> \o Distinct(Tail(sq))

\* a signature that keeps each fingerprint once: sorted(set(hashes))
MutSignature(hashes) == Sorted(Distinct(hashes))

\* dir_signatures[dir_path] = tuple(sorted(hashes))
Signature(hashes) == Sorted(hashes)

RECURSIVE DirHashes(_, _, _, _)
\* dir_hashes[os.path.dirname(file_path)].append(file_hash), group by group
DirHashes(dups, g, k, dh) ==
    IF g > Len(dups) THEN dh
    ELSE IF k > Len(dups[g].paths) THEN DirHashes(dups, g + 1, 1, dh)
    ELSE DirHashes(dups, g, k + 1,
            AppendTo(dh, Dirname(dups[g].paths[k]), dups[g].hash))

RECURSIVE SignatureGroups(_, _, _)
\* signature_groups[signature].append(dir_path), in the order of dir_hashes
SignatureGroups(dh, i, sg) ==
    IF i > Len(dh) THEN sg
    ELSE SignatureGroups(dh, i + 1,
            AppendTo(sg, Signature(dh[i].vals), dh[i].key))

\* a signature group is returned when it has 2 or more directories
IsIdenticalGroup(g) == Len(g.vals) > 1

\* find_identical_directories(statistics, duplicates)
find_identical_directories(dups) ==
    LET groups == SelectSeq(
            SignatureGroups(DirHashes(dups, 1, 1, <<>>), 1, <<>>),
            IsIdenticalGroup)
    IN [i \in 1..Len(groups) |-> groups[i].vals]

\* the duplicate groups of an assignment of fingerprints to files (0: the
\* file is no duplicate), in the order of the fingerprints or in reverse
RECURSIVE GroupsOf(_, _, _)
GroupsOf(assign, h, rev) ==
    IF h > NHashes THEN <<>>
    ELSE LET members == SelectSeq(DirFileSeq, LAMBDA p : assign[p] = h)
             rest == GroupsOf(assign, h + 1, rev)
             this == IF members = <<>> THEN <<>>
                     ELSE <<[hash |-> h, paths |-> members]>>
         IN IF rev THEN rest \o this ELSE this \o rest

\* duplicates as find_duplicates_parallel returns them: every group has 2
\* or more files, and main calls the function with 1 or more groups
DirInit ==
    /\ DetOff
    /\ SelOff
    /\ ExeOff
    /\ CrashOff
    /\ dpc = "ready"
    /\ identical_dirs = <<>>
    /\ \E assign \in [DirFiles -> 0..NHashes], rev \in BOOLEAN :
          /\ \A h \in 1..NHashes :
                Cardinality({p \in DirFiles : assign[p] = h}) # 1
          /\ \E p \in DirFiles : assign[p] # 0
          /\ dup_in = GroupsOf(assign, 1, rev)

FindIdenticalDirectories ==
    /\ dpc = "ready"
    /\ identical_dirs' = find_identical_directories(dup_in)
    /\ dpc' = "done"
    /\ UNCHANGED <<dup_in, detVars, selVars, exeVars, crashVars>>

DirNext == FindIdenticalDirectories

SpecDirs == DirInit /\ [][DirNext]_vars

\* number of files of fingerprint h that lie directly in directory d
CountIn(d, h) ==
    Cardinality({<<g, k>> \in (1..Len(dup_in)) \X (1..Len(DirFileSeq)) :
        /\ k <= Len(dup_in[g].paths)
        /\ dup_in[g].hash = h
        /\ Dirname(dup_in[g].paths[k]) = d})

\* the multiset of fingerprints of the duplicate files directly in d
Bag(d) == [h \in 1..NHashes |-> CountIn(d, h)]
EmptyBag == [h \in 1..NHashes |-> 0]

DirPlaces(d) ==
    {<<g, k>> \in (1..Len(identical_dirs)) \X (1..Cardinality(AllDirs)) :
        k <= Len(identical_dirs[g]) /\ identical_dirs[g][k] = d}
TogetherDirs(d, e) ==
    \E g \in 1..Len(identical_dirs) : {d, e} \subseteq
        {identical_dirs[g][k] : k \in 1..Len(identical_dirs[g])}

\* C6 as stated: any two directories are grouped iff their multisets of
\* duplicate fingerprints are equal; groups have 2 or more directories and
\* no directory is in two groups.
C6_GroupedIffEqualBags ==
    dpc = "done" =>
      /\ \A d, e \in AllDirs :
            d # e => (TogetherDirs(d, e) <=> Bag(d) = Bag(e))
      /\ \A g \in 1..Len(identical_dirs) : Len(identical_dirs[g]) >= 2
      /\ \A d \in AllDirs : Cardinality(DirPlaces(d)) <= 1

\* C6 amended: the same with "equal and not empty": directories that hold
\* no duplicate file are in no group.
C6_GroupedIffEqualNonEmptyBags ==
    dpc = "done" =>
      /\ \A d, e \in AllDirs :
            d # e => (TogetherDirs(d, e) <=>
                        (Bag(d) = Bag(e) /\ Bag(d) # EmptyBag))
      /\ \A g \in 1..Len(identical_dirs) : Len(identical_dirs[g]) >= 2
      /\ \A d \in AllDirs : Cardinality(DirPlaces(d)) <= 1

\* {X,X,Y} and {Y,X,X} are grouped while a directory with {X} is not
C6_Witness ==
    /\ dpc = "done"
    /\ \E d, e, f \in AllDirs :
          /\ d # e /\ TogetherDirs(d, e)
          /\ \E h, j \in 1..NHashes : CountIn(d, h) = 2 /\ CountIn(d, j) = 1
          /\ Bag(f) # EmptyBag /\ DirPlaces(f) = {}

(***************************************************************************)
(* interactive_selection and auto_select_first_copy.                       *)
(***************************************************************************)
MaxKeep == 2        \* numbers entered at "which to keep" are 0..MaxKeep tokens

\* what the user may type at "Ваш выбор"
RawChoices == {"s", "a", "b", "m", "A", "q"}
\* the words the user may type at the manual prompt
Tokens == {"0", "2", "4", "x"}
KeepInputs == UNION {[1..n -> Tokens] : n \in 0..MaxKeep}

\* input().strip().lower()
StripLower(raw) == IF raw = "A" THEN "a" ELSE raw

\* str.isdigit
IsDigit(t) == t \in {"0", "2", "4"}
\* int(idx)
ToInt(t) == CASE t = "0" -> 0 [] t = "2" -> 2 [] t = "4" -> 4

\* keep_indices = [int(idx) - 1 for idx in keep if idx.isdigit()], 1-based
MutKeepIndices(keep) ==
    {ToInt(keep[i]) : i \in {j \in 1..Len(keep) : IsDigit(keep[j])}}

\* keep_indices = [int(idx) - 1 for idx in keep if idx.isdigit()]
KeepIndices(keep) ==
    {ToInt(keep[i]) - 1 : i \in {j \in 1..Len(keep) : IsDigit(keep[j])}}

\* file_paths[1:]
AllButFirst(paths) == SubSeq(paths, 2, Len(paths))
\* file_paths[:-1]
AllButLast(paths) == SubSeq(paths, 1, Len(paths) - 1)

RECURSIVE NotKept(_, _, _)
\* the paths whose 0-based idx is not in keep_indices
NotKept(paths, n, keep_indices) ==
    IF n >= Len(paths) THEN <<>>
    ELSE (IF n \notin keep_indices THEN <<paths[n + 1]>> ELSE <<>>)
         \o NotKept(paths, n + 1, keep_indices)

RECURSIVE ExtendAllButFirst(_, _)
\* auto_select_first_copy: extend(group[1:]) for every group
ExtendAllButFirst(groups, i) ==
    IF i > Len(groups) THEN <<>>
    ELSE AllButFirst(groups[i]) \o ExtendAllButFirst(groups, i + 1)

G3 == << <<"a", "1">>, <<"b", "1">>, <<"c", "1">> >>
G2 == << <<"a", "2">>, <<"b", "2">> >>
D3 == << <<"a">>, <<"b">>, <<"c">> >>

\* main calls with 1 or more duplicate groups; interactive_selection is
\* called by main with auto_select_first at its default
SelInit ==
    /\ DetOff
    /\ DirOff
    /\ ExeOff
    /\ CrashOff
    /\ mode \in {"auto", "interactive"}
    /\ spc = IF mode = "auto" THEN "auto" ELSE "files"
    /\ sel_dups \in {<<G3>>, <<G3, G2>>}
    /\ sel_dirs \in {<<>>, <<D3>>}
    /\ auto_select_first \in BOOLEAN
    /\ mode = "auto" => auto_select_first = FALSE
    /\ gi = 1
    /\ files_to_delete = <<>>
    /\ dirs_to_delete = <<>>
    /\ fileAns = <<>>
    /\ dirAns = <<>>

\* auto_select_first_copy(duplicates, identical_dirs)
AutoSelectFirstCopy ==
    /\ spc = "auto"
    /\ files_to_delete' = ExtendAllButFirst(sel_dups, 1)
    /\ dirs_to_delete' = ExtendAllButFirst(sel_dirs, 1)
    /\ spc' = "returned"
    /\ UNCHANGED <<mode, sel_dups, sel_dirs, auto_select_first, gi, fileAns,
                   dirAns>>
    /\ UNCHANGED <<detVars, dirVars, exeVars, crashVars>>

\* interactive_selection: one pass of the loop over the file groups
SelectFileGroup ==
    /\ spc = "files"
    /\ gi <= Len(sel_dups)
    /\ LET file_paths == sel_dups[gi]
       IN IF auto_select_first
          THEN /\ files_to_delete' = files_to_delete \o AllButFirst(file_paths)
               /\ fileAns' = Append(fileAns, [raw |-> "none", keep |-> <<>>])
               /\ UNCHANGED auto_select_first
          ELSE \E raw \in RawChoices, keep \in KeepInputs :
               LET choice == StripLower(raw)
               IN /\ choice # "m" => keep = <<>>
                  /\ fileAns' = Append(fileAns, [raw |-> raw, keep |-> keep])
                  /\ IF choice = "s"
                     THEN UNCHANGED <<files_to_delete, auto_select_first>>
                     ELSE IF choice = "a"
                     THEN /\ files_to_delete' =
                               files_to_delete \o AllButFirst(file_paths)
                          /\ UNCHANGED auto_select_first
                     ELSE IF choice = "b"
                     THEN /\ files_to_delete' =
                               files_to_delete \o AllButLast(file_paths)
                          /\ UNCHANGED auto_select_first
                     ELSE IF choice = "m"
                     THEN /\ files_to_delete' = files_to_delete \o
                               NotKept(file_paths, 0, KeepIndices(keep))
                          /\ UNCHANGED auto_select_first
                     ELSE IF choice = "a"
                     THEN /\ files_to_delete' =
                               files_to_delete \o AllButFirst(file_paths)
                          /\ auto_select_first' = TRUE
                     ELSE UNCHANGED <<files_to_delete, auto_select_first>>
    /\ gi' = gi + 1
    /\ UNCHANGED <<mode, spc, sel_dups, sel_dirs, dirs_to_delete, dirAns>>
    /\ UNCHANGED <<detVars, dirVars, exeVars, crashVars>>

\* the loop over the file groups is over
FileGroupsDone ==
    /\ spc = "files"
    /\ gi > Len(sel_dups)
    /\ spc' = "dirs"
    /\ gi' = 1
    /\ UNCHANGED <<mode, sel_dups, sel_dirs, auto_select_first,
                   files_to_delete, dirs_to_delete, fileAns, dirAns>>
    /\ UNCHANGED <<detVars, dirVars, exeVars, crashVars>>

\* interactive_selection: one pass of the loop over the directory groups
SelectDirGroup ==
    /\ spc = "dirs"
    /\ gi <= Len(sel_dirs)
    /\ LET dir_group == sel_dirs[gi]
       IN \E raw \in RawChoices, keep \in KeepInputs :
          LET choice == StripLower(raw)
          IN /\ choice # "m" => keep = <<>>
             /\ dirAns' = Append(dirAns, [raw |-> raw, keep |-> keep])
             /\ IF choice = "s"
                THEN UNCHANGED dirs_to_delete
                ELSE IF choice = "a"
                THEN dirs_to_delete' = dirs_to_delete \o AllButFirst(dir_group)
                ELSE IF choice = "b"
                THEN dirs_to_delete' = dirs_to_delete \o AllButLast(dir_group)
                ELSE IF choice = "m"
                THEN dirs_to_delete' = dirs_to_delete \o
                        NotKept(dir_group, 0, KeepIndices(keep))
                ELSE UNCHANGED dirs_to_delete
    /\ gi' = gi + 1
    /\ UNCHANGED <<mode, spc, sel_dups, sel_dirs, auto_select_first,
                   files_to_delete, fileAns>>
    /\ UNCHANGED <<detVars, dirVars, exeVars, crashVars>>

\* return files_to_delete, dirs_to_delete
ReturnSelection ==
    /\ spc = "dirs"
    /\ gi > Len(sel_dirs)
    /\ spc' = "returned"
    /\ UNCHANGED <<mode, sel_dups, sel_dirs, auto_select_first, gi,
                   files_to_delete, dirs_to_delete, fileAns, dirAns>>
    /\ UNCHANGED <<detVars, dirVars, exeVars, crashVars>>

SelNext == AutoSelectFirstCopy \/ SelectFileGroup \/ FileGroupsDone
              \/ SelectDirGroup \/ ReturnSelection

SpecPlan == SelInit /\ [][SelNext]_vars

(***************************************************************************)
(* Properties of the selection.                                            *)
(***************************************************************************)
Members(sq) == {sq[i] : i \in 1..Len(sq)}

\* C7: whatever is entered, every file group and every directory group keeps
\* a member out of the delete list (a manual keep list that retains nothing
\* is rejected and adds nothing of the group).
C7_EveryGroupRetainsAMember ==
    spc = "returned" =>
      /\ \A g \in 1..Len(sel_dups) :
            Members(sel_dups[g]) \ Members(files_to_delete) # {}
      /\ \A g \in 1..Len(sel_dirs) :
            Members(sel_dirs[g]) \ Members(dirs_to_delete) # {}

\* the number a word entered at the manual prompt stands for
Denotes(t, n) == (t = "0" /\ n = 0) \/ (t = "2" /\ n = 2) \/ (t = "4" /\ n = 4)

RECURSIVE ExceptPositions(_, _, _)
\* the members of a group whose 1-based position is not kept, in order
ExceptPositions(group, i, kept) ==
    IF i > Len(group) THEN <<>>
    ELSE (IF i \in kept THEN <<>> ELSE <<group[i]>>)
         \o ExceptPositions(group, i + 1, kept)

\* what a group contributes under the policy its own answer selects
Contribution(group, ans) ==
    IF ans.raw \in {"a", "A", "none"}
    THEN ExceptPositions(group, 1, {1})
    ELSE IF ans.raw = "b"
    THEN ExceptPositions(group, 1, {Len(group)})
    ELSE IF ans.raw = "m"
    THEN ExceptPositions(group, 1,
            {n \in 1..Len(group) :
                \E i \in 1..Len(ans.keep) : Denotes(ans.keep[i], n)})
    ELSE <<>>

RECURSIVE Contributions(_, _, _)
Contributions(groups, answers, i) ==
    IF i > Len(groups) THEN <<>>
    ELSE Contribution(groups[i], answers[i])
         \o Contributions(groups, answers, i + 1)

KeepFirstAnswers(groups) == [i \in 1..Len(groups) |-> [raw |-> "none", keep |-> <<>>]]

NoPromptFrom(answers, i) ==
    [j \in 1..Len(answers) |->
        IF j >= i THEN [raw |-> "none", keep |-> <<>>] ELSE answers[j]]

\* C12: once 'A' is answered for a file group, no later file group prompts,
\* and that group and every later one give all their members but the first
\* to files_to_delete.
C12_ApplyToAllRemainingGroups ==
    \A i \in 1..Len(fileAns) :
       fileAns[i].raw = "A" =>
          /\ \A j \in (i + 1)..Len(fileAns) : fileAns[j].raw = "none"
          /\ spc = "returned" =>
                files_to_delete =
                   Contributions(sel_dups, NoPromptFrom(fileAns, i), 1)

(***************************************************************************)
(* execute_deletion.                                                       *)
(***************************************************************************)
MaxPlanFiles == 2   \* length of files_to_delete
MaxPlanDirs == 2    \* length of dirs_to_delete

\* path p lies in directory d or below it
Under(d, p) == Len(p) > Len(d) /\ SubSeq(p, 1, Len(d)) = d

\* a file is "present", "locked" (os.remove fails: permission denied) or
\* "gone"; a directory that does not exist holds nothing
TreeOk(t) ==
    \A d \in ExeDirs : ~t.dirs[d] =>
        /\ \A p \in ExeFiles : Under(d, p) => t.files[p] = "gone"
        /\ \A e \in ExeDirs : Under(d, e) => ~t.dirs[e]

Trees == {t \in [files : [ExeFiles -> {"present", "locked", "gone"}],
                 dirs : [ExeDirs -> BOOLEAN]] : TreeOk(t)}

Plans(items, n) == UNION {[1..k -> items] : k \in 0..n}

RECURSIVE SumSizes(_)
SumSizes(ps) ==
    IF ps = {} THEN 0
    ELSE LET p == CHOOSE q \in ps : TRUE
         IN FileSize(p) + SumSizes(ps \ {p})

\* the os.walk loop: the sizes of the files found under dir_path (nothing
\* is found when dir_path does not exist)
DirSize(t, d) == SumSizes({p \in ExeFiles : Under(d, p) /\ t.files[p] # "gone"})

\* a removal that is also done in a dry run
MutShouldRemove(dry) == TRUE

\* if not dry_run: os.remove / shutil.rmtree
ShouldRemove(dry) == ~dry

\* an item counted as soon as its size was read
MutCounted(sizeOk, removeOk) == sizeOk

\* the counters are reached when neither the size nor the removal raised
Counted(sizeOk, removeOk) == sizeOk /\ removeOk

\* shutil.rmtree(d): the trees it may leave.  With no locked file below d
\* everything below d and d itself are removed.  With a locked file it
\* raises at that file: the files it unlinked before are gone, a
\* subdirectory is gone when it was emptied before, and d stays.
RmTree(t, d) ==
    LET below == {p \in ExeFiles : Under(d, p) /\ t.files[p] # "gone"}
        locked == {p \in below : t.files[p] = "locked"}
        subdirs == {e \in ExeDirs : Under(d, e) /\ t.dirs[e]}
    IN IF locked = {}
       THEN {[files |-> [p \in ExeFiles |->
                           IF Under(d, p) THEN "gone" ELSE t.files[p]],
              dirs |-> [e \in ExeDirs |->
                           IF e = d \/ Under(d, e) THEN FALSE ELSE t.dirs[e]]]}
       ELSE {[files |-> [p \in ExeFiles |->
                           IF p \in R THEN "gone" ELSE t.files[p]],
              dirs |-> [e \in ExeDirs |->
                           IF e \in S THEN FALSE ELSE t.dirs[e]]] :
                <<R, S>> \in
                  {<<R0, S0>> \in (SUBSET (below \ locked)) \X (SUBSET subdirs) :
                     /\ \A e \in S0 : \A p \in below : Under(e, p) => p \in R0
                     /\ \A e \in subdirs \ S0 :
                          (\A p \in locked : ~Under(e, p)) =>
                             \A p \in R0 : ~Under(e, p)}}

\* main calls execute_deletion when the plan is not empty
ExeInit ==
    /\ DetOff
    /\ DirOff
    /\ SelOff
    /\ CrashOff
    /\ epc = "files"
    /\ efs \in Trees
    /\ efs0 = efs
    /\ plan_files \in Plans(ExeFiles, MaxPlanFiles)
    /\ plan_dirs \in Plans(ExeDirs, MaxPlanDirs)
    /\ Len(plan_files) + Len(plan_dirs) > 0
    /\ dry_run \in BOOLEAN
    /\ ei = 1
    /\ deleted_files = 0
    /\ deleted_dirs = 0
    /\ freed_space = 0
    /\ elog = <<>>

\* one pass of the loop over files_to_delete
DeleteFile ==
    /\ epc = "files"
    /\ ei <= Len(plan_files)
    /\ LET file_path == plan_files[ei]
           sizeOk == efs.files[file_path] # "gone"
           removeOk == ~ShouldRemove(dry_run) \/ efs.files[file_path] = "present"
       IN /\ efs' = IF sizeOk /\ ShouldRemove(dry_run) /\ removeOk
                    THEN [efs EXCEPT !.files[file_path] = "gone"] ELSE efs
          /\ IF Counted(sizeOk, removeOk)
             THEN /\ deleted_files' = deleted_files + 1
                  /\ freed_space' = freed_space + FileSize(file_path)
             ELSE UNCHANGED <<deleted_files, freed_space>>
          /\ elog' = Append(elog,
                [item |-> file_path,
                 before |-> efs.files[file_path] # "gone",
                 after |-> efs'.files[file_path] # "gone",
                 size |-> FileSize(file_path)])
    /\ ei' = ei + 1
    /\ UNCHANGED <<epc, plan_files, plan_dirs, dry_run, deleted_dirs, efs0>>
    /\ UNCHANGED <<detVars, dirVars, selVars, crashVars>>

\* the loop over files_to_delete is over
FilesDeleted ==
    /\ epc = "files"
    /\ ei > Len(plan_files)
    /\ epc' = "dirs"
    /\ ei' = 1
    /\ UNCHANGED <<efs, plan_files, plan_dirs, dry_run, deleted_files,
                   deleted_dirs, freed_space, efs0, elog>>
    /\ UNCHANGED <<detVars, dirVars, selVars, crashVars>>

\* one pass of the loop over dirs_to_delete
DeleteDir ==
    /\ epc = "dirs"
    /\ ei <= Len(plan_dirs)
    /\ LET dir_path == plan_dirs[ei]
           dir_size == DirSize(efs, dir_path)
           \* shutil.rmtree raises when dir_path is missing or a file below
           \* it cannot be removed
           rmtreeOk == /\ efs.dirs[dir_path]
                       /\ \A p \in ExeFiles :
                             Under(dir_path, p) => efs.files[p] # "locked"
       IN /\ IF ShouldRemove(dry_run)
             THEN IF efs.dirs[dir_path]
                  THEN efs' \in RmTree(efs, dir_path)
                  ELSE efs' = efs
             ELSE efs' = efs
          /\ IF Counted(TRUE, ~ShouldRemove(dry_run) \/ rmtreeOk)
             THEN /\ deleted_dirs' = deleted_dirs + 1
                  /\ freed_space' = freed_space + dir_size
             ELSE UNCHANGED <<deleted_dirs, freed_space>>
          /\ elog' = Append(elog,
                [item |-> dir_path,
                 before |-> efs.dirs[dir_path],
                 after |-> efs'.dirs[dir_path],
                 size |-> dir_size])
    /\ ei' = ei + 1
    /\ UNCHANGED <<epc, plan_files, plan_dirs, dry_run, deleted_files, efs0>>
    /\ UNCHANGED <<detVars, dirVars, selVars, crashVars>>

\* the totals are printed and execute_deletion returns
DeletionDone ==
    /\ epc = "dirs"
    /\ ei > Len(plan_dirs)
    /\ epc' = "finished"
    /\ UNCHANGED <<efs, plan_files, plan_dirs, dry_run, ei, deleted_files,
                   deleted_dirs, freed_space, efs0, elog>>
    /\ UNCHANGED <<detVars, dirVars, selVars, crashVars>>

ExeNext == DeleteFile \/ FilesDeleted \/ DeleteDir \/ DeletionDone

SpecExec == ExeInit /\ [][ExeNext]_vars

(***************************************************************************)
(* Properties of the execution.                                            *)
(***************************************************************************)
\* the item of step i was there before the step and is not after it
Removed(i) == elog[i].before /\ ~elog[i].after

RECURSIVE FreedBy(_)
FreedBy(is) ==
    IF is = {} THEN 0
    ELSE LET i == CHOOSE j \in is : TRUE
         IN elog[i].size + FreedBy(is \ {i})

\* C9: in a real deletion every item of the plan is attempted, in order,
\* and the totals are the counts and the pre-removal sizes of exactly the
\* items that were removed: a failed item adds nothing.
C9_TotalsAreTheRemovedItems ==
    (epc = "finished" /\ ~dry_run) =>
      LET nf == Len(plan_files)
          nd == Len(plan_dirs)
      IN /\ Len(elog) = nf + nd
         /\ \A i \in 1..nf : elog[i].item = plan_files[i]
         /\ \A i \in 1..nd : elog[nf + i].item = plan_dirs[i]
         /\ deleted_files = Cardinality({i \in 1..nf : Removed(i)})
         /\ deleted_dirs = Cardinality({i \in (nf + 1)..(nf + nd) : Removed(i)})
         /\ freed_space = FreedBy({i \in 1..(nf + nd) : Removed(i)})
         /\ \A p \in ExeFiles :
               (efs0.files[p] # "gone" /\ efs.files[p] # "gone")
                  => efs.files[p] = efs0.files[p]

\* a removal failed between two that succeeded
C9_Witness ==
    /\ epc = "finished"
    /\ ~dry_run
    /\ \E i, j, k \in 1..Len(elog) :
          /\ i < j /\ j < k
          /\ Removed(i) /\ ~Removed(j) /\ Removed(k)
          /\ elog[j].before
    /\ freed_space > 0

\* C10: a dry run leaves every file and directory as it was.
C10_DryRunChangesNothing ==
    dry_run => efs = efs0

\* a dry run over existing files and directories has finished
C10_Witness ==
    /\ epc = "finished"
    /\ dry_run
    /\ deleted_files > 0
    /\ deleted_dirs > 0
    /\ \E i \in 1..Len(elog) : elog[i].before

\* one duplicate group, and the identical directories it gives
ApplyDups == <<[hash |-> 1, paths |-> << <<"a", "1">>, <<"b", "1">> >>]>>
ApplyDirs == find_identical_directories(ApplyDups)

\* the plans of a selection that keeps 1 or more members of the group
RetainingPlans(group) ==
    {ExceptPositions(group, 1, kept) :
        kept \in (SUBSET (1..Len(group))) \ {{}}}

\* C13: a real deletion of a plan that keeps a member of every file group
\* and of every directory group leaves a file of every duplicate group on
\* disk.
C13_EveryGroupKeepsACopyOnDisk ==
    ( /\ epc = "finished"
      /\ ~dry_run
      /\ \A g \in 1..Len(ApplyDups) :
            \A p \in Members(ApplyDups[g].paths) : efs0.files[p] = "present"
      /\ plan_files \in RetainingPlans(ApplyDups[1].paths)
      /\ plan_dirs \in RetainingPlans(ApplyDirs[1]) )
    => \A g \in 1..Len(ApplyDups) :
          \E p \in Members(ApplyDups[g].paths) : efs.files[p] # "gone"

RECURSIVE DryFileBytes(_, _)
\* the sizes a dry run adds for the files: getsize of each one that exists
DryFileBytes(t, pf) ==
    IF pf = <<>> THEN 0
    ELSE (IF t.files[Head(pf)] # "gone" THEN FileSize(Head(pf)) ELSE 0)
         + DryFileBytes(t, Tail(pf))

RECURSIVE DryDirBytes(_, _)
\* the sizes a dry run adds for the directories
DryDirBytes(t, pd) ==
    IF pd = <<>> THEN 0
    ELSE DirSize(t, Head(pd)) + DryDirBytes(t, Tail(pd))

\* the report of execute_deletion(pf, pd, dry_run=True) on tree t
DryReport(t, pf, pd) ==
    [deleted_files |-> Cardinality({i \in 1..Len(pf) : t.files[pf[i]] # "gone"}),
     deleted_dirs |-> Len(pd),
     freed_space |-> DryFileBytes(t, pf) + DryDirBytes(t, pd)]

\* C14: from the same tree and with the same plan, a dry run and a real
\* deletion report the same deleted_files, deleted_dirs and freed_space:
\* both report what the dry run reports.
C14_DryRunReportsWhatRealRunReports ==
    epc = "finished" =>
       [deleted_files |-> deleted_files, deleted_dirs |-> deleted_dirs,
        freed_space |-> freed_space]
          = DryReport(efs0, plan_files, plan_dirs)

(***************************************************************************)
(* The cache file across runs, any of which may be killed.                 *)
(***************************************************************************)
MaxCacheRuns == 2   \* runs started on one cache file

\* the candidate files of every run
CrashCands == <<Paths[1], Paths[2]>>

\* HashCache.load_cache: {} when the file is missing or cannot be unpickled
load_cache == IF torn THEN EmptyCache ELSE disk

CrashInit ==
    /\ fs = [p \in PathSet |-> [content |-> <<>>, mtime |-> 0, st |-> "ok"]]
    /\ changes = 0
    /\ pc = "idle"
    /\ runs = 0
    /\ file_list = <<>>
    /\ cache = EmptyCache
    /\ disk = EmptyCache
    /\ cands = <<>>
    /\ idx = 1
    /\ hashes_map = <<>>
    /\ from_cache = 0
    /\ duplicates = <<>>
    /\ snap = [p \in PathSet |-> <<>>]
    /\ resolved = [p \in PathSet |-> None]
    /\ hashCalls = {}
    /\ failed = {}
    /\ startCache = EmptyCache
    /\ quiet = FALSE
    /\ prev = NoPrev
    /\ torn = FALSE
    /\ kwrites = 0
    /\ crashed = FALSE
    /\ DirOff
    /\ SelOff
    /\ ExeOff

\* find_duplicates_parallel: HashCache(cache_file) loads the cache
CacheRunStart ==
    /\ pc = "idle"
    /\ runs < MaxCacheRuns
    /\ cache' = load_cache
    /\ startCache' = load_cache
    /\ idx' = 1
    /\ runs' = runs + 1
    /\ kwrites' = 0
    /\ crashed' = FALSE
    /\ pc' = "hashing"
    /\ UNCHANGED <<fs, changes, file_list, disk, cands, hashes_map, from_cache,
                   duplicates, snap, resolved, hashCalls, failed, quiet, prev,
                   torn>>
    /\ UNCHANGED <<dirVars, selVars, exeVars>>

\* one iteration of the loop over the candidates; the file is c with
\* modification time t, and its digest succeeds or fails
CacheStep ==
    /\ pc = "hashing"
    /\ idx <= Len(CrashCands)
    /\ \E c \in Contents, t \in Mtimes, readable \in BOOLEAN :
          LET p == CrashCands[idx]
              cached == CacheGet(cache, p, getsize(c), t)
          IN IF cached = None /\ readable
             THEN cache' = CacheSet(cache, p, getsize(c), t, Md5(c))
             ELSE UNCHANGED cache
    /\ idx' = idx + 1
    /\ UNCHANGED <<fs, changes, pc, runs, file_list, disk, cands, hashes_map,
                   from_cache, duplicates, snap, resolved, hashCalls, failed,
                   startCache, quiet, prev>>
    /\ UNCHANGED <<dirVars, selVars, exeVars, crashVars>>

\* save_cache, open(cache_file, 'wb'): the file is created or truncated
SaveOpen ==
    /\ pc = "hashing"
    /\ idx > Len(CrashCands)
    /\ torn' = TRUE
    /\ disk' = EmptyCache
    /\ kwrites' = kwrites + 1
    /\ pc' = "dumping"
    /\ UNCHANGED <<fs, changes, runs, file_list, cache, cands, idx, hashes_map,
                   from_cache, duplicates, snap, resolved, hashCalls, failed,
                   startCache, quiet, prev, crashed>>
    /\ UNCHANGED <<dirVars, selVars, exeVars>>

\* save_cache, pickle.dump and close: the whole mapping is in the file
SaveDump ==
    /\ pc = "dumping"
    /\ torn' = FALSE
    /\ disk' = cache
    /\ pc' = "idle"
    /\ UNCHANGED <<fs, changes, runs, file_list, cache, cands, idx, hashes_map,
                   from_cache, duplicates, snap, resolved, hashCalls, failed,
                   startCache, quiet, prev, kwrites, crashed>>
    /\ UNCHANGED <<dirVars, selVars, exeVars>>

\* the process is killed: its memory is gone, the file stays as it is
Crash ==
    /\ pc \in {"hashing", "dumping"}
    /\ cache' = EmptyCache
    /\ idx' = 1
    /\ crashed' = TRUE
    /\ pc' = "idle"
    /\ UNCHANGED <<fs, changes, runs, file_list, disk, cands, hashes_map,
                   from_cache, duplicates, snap, resolved, hashCalls, failed,
                   startCache, quiet, prev, torn, kwrites>>
    /\ UNCHANGED <<dirVars, selVars, exeVars>>

CrashNext == CacheRunStart \/ CacheStep \/ SaveOpen \/ SaveDump \/ Crash

SpecCrash == CrashInit /\ [][CrashNext]_vars

\* C11: the cache file is written by save_cache alone, once per run and
\* after the last candidate, and after a crash load_cache still returns
\* every entry the earlier runs persisted (those the crashed run loaded),
\* unchanged.
C11_CrashKeepsPersistedEntries ==
    /\ kwrites <= 1
    /\ kwrites = 1 => idx > Len(CrashCands) \/ pc = "idle"
    /\ (pc = "idle" /\ crashed) =>
          \A p \in PathSet :
             startCache[p] # NoEntry => load_cache[p] = startCache[p]

DetNext == Scan \/ LoadAndGroup \/ ProcessFile \/ SaveAndFilter
              \/ WriteFile \/ ChangeAccess

Spec == DetInit /\ [][DetNext]_vars
====
